---- MODULE Spec2Model ----
(***************************************************************************)
(* Model of sum_komoditas.py: process_files (the aggregation of the        *)
(* district sheet and the sub-district sheet of every candidate workbook)  *)
(* and the output-writing step of the main script.                         *)
(*                                                                         *)
(* A DataFrame is a record [none, cols, num, rows]: cols is the set of     *)
(* column names, num the columns of dtype int64/float64, rows the rows in  *)
(* index order, each a function from cols to cells.  A cell is an integer, *)
(* a text or NaN.  pandas semantics modelled (pandas 2.x): boolean-mask    *)
(* filtering keeps the dtypes, concat takes the union of the columns and   *)
(* fills NaN, a column stays numeric when every frame that has values in  *)
(* it has it numeric, sum() skips NaN, groupby sorts by key.  The cells    *)
(* of the input sheets are integers or texts; NaN comes from concat.       *)
(***************************************************************************)
EXTENDS Integers, Sequences, FiniteSets, TLC

VARIABLES files, kab_code, pc, idx, result_kab, result_kec, summary_kab,
          skipped, log, sheets_written

vars == <<files, kab_code, pc, idx, result_kab, result_kec, summary_kab,
          skipped, log, sheets_written>>

----------------------------------------------------------------------------
(* Cells *)

Int_(n) == [k |-> "int", n |-> n, s |-> ""]
Str_(s) == [k |-> "str", n |-> 0, s |-> s]
NaN == [k |-> "nan", n |-> 0, s |-> ""]

IsNum(c) == c.k = "int"

\* the value a cell contributes to sum(): NaN is skipped
NumOrZero(c) == IF c.k = "int" THEN c.n ELSE 0

----------------------------------------------------------------------------
(* Frames *)

\* pd.DataFrame()
EmptyFrame == [none |-> FALSE, cols |-> {}, num |-> {}, rows |-> <<>>]

\* Python's None, where a frame is expected
NoneFrame == [none |-> TRUE, cols |-> {}, num |-> {}, rows |-> <<>>]

\* DataFrame.empty
IsEmpty(df) == Len(df.rows) = 0

RECURSIVE SumSeq(_)
SumSeq(s) == IF s = <<>> THEN 0 ELSE Head(s) + SumSeq(Tail(s))

\* Series.sum() of column c of df
ColSum(df, c) == SumSeq([j \in 1..Len(df.rows) |-> NumOrZero(df.rows[j][c])])

\* a mask that selects every row
FilterEqKeepsAll(df, c, v) == df

RECURSIVE FilterSeq(_, _, _)
FilterSeq(s, c, v) ==
    IF s = <<>> THEN <<>>
    ELSE IF Head(s)[c] = v THEN <<Head(s)>> \o FilterSeq(Tail(s), c, v)
         ELSE FilterSeq(Tail(s), c, v)

\* df[df[c] == v]
FilterEq(df, c, v) == [df EXCEPT !.rows = FilterSeq(df.rows, c, v)]

\* a row of a frame widened to more columns, NaN where it has none
Widen(r, cols) == [c \in cols |-> IF c \in DOMAIN r THEN r[c] ELSE NaN]

\* column c of f holds a value in some row (an empty or all-NaN column does not)
HasValues(f, c) == \E j \in 1..Len(f.rows) : f.rows[j][c].k # "nan"

\* dtype of column c of pd.concat([a, b]), numeric or not: the common dtype of
\* the frames that have the column, the empty and all-NaN ones left out
ConcatNumeric(a, b, c) ==
    LET has == {f \in {a, b} : c \in f.cols}
        live == {f \in has : HasValues(f, c)}
    IN IF live # {} THEN \A f \in live : c \in f.num
       ELSE \A f \in has : c \in f.num

\* pd.concat([a, b], ignore_index=True)
Concat(a, b) ==
    LET cols == a.cols \cup b.cols
    IN [none |-> FALSE,
        cols |-> cols,
        num  |-> {c \in cols : ConcatNumeric(a, b, c)},
        rows |-> [j \in 1..(Len(a.rows) + Len(b.rows)) |->
                    IF j <= Len(a.rows) THEN Widen(a.rows[j], cols)
                    ELSE Widen(b.rows[j - Len(a.rows)], cols)]]

RECURSIVE SortCells(_)
\* the integer cells of S in ascending order (groupby sorts the group keys)
SortCells(S) ==
    IF S = {} THEN <<>>
    ELSE LET m == CHOOSE x \in S : \A y \in S : x.n <= y.n
         IN <<m>> \o SortCells(S \ {m})

\* the group keys of df.groupby(key): the distinct non-NaN values of the column
GroupKeys(df, key) ==
    {df.rows[j][key] : j \in {i \in 1..Len(df.rows) : df.rows[i][key].k # "nan"}}

\* sum of column c over the rows of df whose key column holds g
GroupSum(df, key, g, c) ==
    SumSeq([j \in 1..Len(df.rows) |->
              IF df.rows[j][key] = g THEN NumOrZero(df.rows[j][c]) ELSE 0])

\* df.groupby(key)[cols].sum().reset_index(), for key and cols columns of df
GroupBySum(df, key, cols) ==
    LET keys == SortCells(GroupKeys(df, key))
    IN [none |-> FALSE,
        cols |-> {key} \cup cols,
        num  |-> ({key} \cap df.num) \cup cols,
        rows |-> [j \in 1..Len(keys) |->
                    [c \in {key} \cup cols |->
                       IF c = key THEN keys[j]
                       ELSE Int_(GroupSum(df, key, keys[j], c))]]]

\* df[c] = v, for a scalar v: the column is added, or replaced, in every row
SetColumn(df, c, v) ==
    [df EXCEPT !.cols = @ \cup {c},
               !.num  = IF IsNum(v) THEN @ \cup {c} ELSE @ \ {c},
               !.rows = [j \in 1..Len(df.rows) |->
                           [d \in df.cols \cup {c} |->
                              IF d = c THEN v ELSE df.rows[j][d]]]]

Digit(d) == CASE d = 0 -> "0" [] d = 1 -> "1" [] d = 2 -> "2" [] d = 3 -> "3"
              [] d = 4 -> "4" [] d = 5 -> "5" [] d = 6 -> "6" [] d = 7 -> "7"
              [] d = 8 -> "8" [] d = 9 -> "9"

RECURSIVE NatToStr(_)
NatToStr(n) == IF n < 10 THEN Digit(n) ELSE NatToStr(n \div 10) \o Digit(n % 10)

\* str(v) of a cell
CellToStr(c) ==
    CASE c.k = "str" -> c
      [] c.k = "nan" -> Str_("nan")
      [] c.k = "int" -> Str_(IF c.n < 0 THEN "-" \o NatToStr(0 - c.n) ELSE NatToStr(c.n))

\* df[new] = df[c].astype(str)
SetColumnAsStr(df, new, c) ==
    [df EXCEPT !.cols = @ \cup {new},
               !.num  = @ \ {new},
               !.rows = [j \in 1..Len(df.rows) |->
                           [d \in df.cols \cup {new} |->
                              IF d = new THEN CellToStr(df.rows[j][c])
                              ELSE df.rows[j][d]]]]

\* col.replace('id_', '') for the identifier columns the script renames
Renamed(col) ==
    CASE col = "id_prov" -> "prov" [] col = "id_kab" -> "kab" [] col = "id_kec" -> "kec"

----------------------------------------------------------------------------
(* process_files *)

columns_to_sum ==
    <<"n_rtup_tunggal", "n_rtup_campuran", "n_rtup_tumpang_sari",
      "n_rtup_asosiasi_antar_semusim", "n_rtup_jumlah", "n_rtup">>

\* the columns a [columns_to_sum] selection needs
MeasureCols == {columns_to_sum[i] : i \in 1..Len(columns_to_sum)}

\* pd.read_excel of a sheet that exists: the dtype of a column is numeric when
\* the sheet has rows and every cell of the column is a number
ReadExcel(sh) ==
    [none |-> FALSE,
     cols |-> sh.cols,
     num  |-> {c \in sh.cols :
                 Len(sh.rows) > 0 /\ \A j \in 1..Len(sh.rows) : sh.rows[j][c].k # "str"},
     rows |-> sh.rows]

\* the accumulator overwritten by the rows of this file, not extended
KabStepOverwrites(rk, f, code) ==
    IF ~f.kab.ok THEN [err |-> "read_kab", kab |-> rk]
    ELSE IF "kab" \notin f.kab.cols THEN [err |-> "filter_kab", kab |-> rk]
    ELSE [err |-> "none", kab |-> FilterEq(ReadExcel(f.kab), "kab", Int_(code))]

\* lines 63-65: result_kab after the district sheet of f, or the step that raised
KabStep(rk, f, code) ==
    IF ~f.kab.ok THEN [err |-> "read_kab", kab |-> rk]
    ELSE IF "kab" \notin f.kab.cols THEN [err |-> "filter_kab", kab |-> rk]
    ELSE [err |-> "none",
          kab |-> Concat(rk, FilterEq(ReadExcel(f.kab), "kab", Int_(code)))]

\* the accumulator overwritten by the sums of this file, not extended
KecStepOverwrites(rc, f, code) ==
    IF ~f.kec.ok THEN [err |-> "read_kec", kec |-> rc]
    ELSE IF "kab" \notin f.kec.cols THEN [err |-> "filter_kec", kec |-> rc]
    ELSE IF ~(({"kec"} \cup MeasureCols) \subseteq f.kec.cols)
         THEN [err |-> "groupby", kec |-> rc]
    ELSE [err |-> "none",
          kec |-> SetColumn(GroupBySum(FilterEq(ReadExcel(f.kec), "kab", Int_(code)),
                                       "kec", MeasureCols),
                            "file", Str_(f.name))]

\* lines 68-75: result_kec after the sub-district sheet of f, or the step that raised
KecStep(rc, f, code) ==
    IF ~f.kec.ok THEN [err |-> "read_kec", kec |-> rc]
    ELSE IF "kab" \notin f.kec.cols THEN [err |-> "filter_kec", kec |-> rc]
    ELSE IF ~(({"kec"} \cup MeasureCols) \subseteq f.kec.cols)
         THEN [err |-> "groupby", kec |-> rc]
    ELSE LET district_data_kec == FilterEq(ReadExcel(f.kec), "kab", Int_(code))
             summed_kec == GroupBySum(district_data_kec, "kec", MeasureCols)
         IN [err |-> "none",
             kec |-> Concat(rc, SetColumn(summed_kec, "file", Str_(f.name)))]

\* one iteration of the loop over the files, the try block and its handler:
\* an exception leaves what was assigned before it
ProcessFile(rk, rc, f, code) ==
    LET a == KabStep(rk, f, code)
    IN IF a.err # "none" THEN [err |-> a.err, kab |-> rk, kec |-> rc]
       ELSE LET b == KecStep(rc, f, code)
            IN [err |-> b.err, kab |-> a.kab, kec |-> b.kec]

RECURSIVE RunLoop(_, _, _, _)
\* the whole loop, from the accumulators rk and rc
RunLoop(rk, rc, fs, code) ==
    IF fs = <<>> THEN [kab |-> rk, kec |-> rc]
    ELSE LET r == ProcessFile(rk, rc, Head(fs), code)
         IN RunLoop(r.kab, r.kec, Tail(fs), code)

\* no column excluded
RowToSumAll(rk) == rk.num

\* lines 85-86
RowToSum(rk) == rk.num \ {"id_komoditas", "ID"}

\* the last accumulated row in place of the first
RECURSIVE AttachKabIdsLast(_, _, _)
AttachKabIdsLast(summary, rk, ids) ==
    IF ids = <<>> THEN summary
    ELSE LET col == Head(ids)
             next == IF col \in rk.cols
                     THEN SetColumn(summary, Renamed(col), rk.rows[Len(rk.rows)][col])
                     ELSE summary
         IN AttachKabIdsLast(next, rk, Tail(ids))

\* lines 93-98, for the columns in ids not yet handled
RECURSIVE AttachKabIds(_, _, _)
AttachKabIds(summary, rk, ids) ==
    IF ids = <<>> THEN summary
    ELSE LET col == Head(ids)
             next == IF col \in rk.cols
                     THEN SetColumn(summary, Renamed(col), rk.rows[1][col])
                     ELSE summary
         IN AttachKabIds(next, rk, Tail(ids))

\* lines 80-98
SummaryKab(rk) ==
    IF IsEmpty(rk) THEN NoneFrame
    ELSE LET row_to_sum == RowToSum(rk)
             sum_row_kab == [c \in row_to_sum |-> Int_(ColSum(rk, c))]
             one == [none |-> FALSE, cols |-> row_to_sum, num |-> row_to_sum,
                     rows |-> <<sum_row_kab>>]
         IN AttachKabIds(one, rk, <<"id_prov", "id_kab">>)

RECURSIVE AttachKecIds(_, _)
\* lines 108-113
AttachKecIds(df, ids) ==
    IF ids = <<>> THEN df
    ELSE LET col == Head(ids)
             next == IF col \in df.cols
                     THEN SetColumnAsStr(df, Renamed(col), col)
                     ELSE df
         IN AttachKecIds(next, Tail(ids))

\* the last measure column left out of SUM
WithSUMShort(df) ==
    [df EXCEPT !.cols = @ \cup {"SUM"},
               !.num  = @ \cup {"SUM"},
               !.rows = [j \in 1..Len(df.rows) |->
                           [d \in df.cols \cup {"SUM"} |->
                              IF d = "SUM"
                              THEN Int_(SumSeq([i \in 1..(Len(columns_to_sum) - 1) |->
                                     NumOrZero(df.rows[j][columns_to_sum[i]])]))
                              ELSE df.rows[j][d]]]]

\* line 116
WithSUM(df) ==
    [df EXCEPT !.cols = @ \cup {"SUM"},
               !.num  = @ \cup {"SUM"},
               !.rows = [j \in 1..Len(df.rows) |->
                           [d \in df.cols \cup {"SUM"} |->
                              IF d = "SUM"
                              THEN Int_(SumSeq([i \in 1..Len(columns_to_sum) |->
                                     NumOrZero(df.rows[j][columns_to_sum[i]])]))
                              ELSE df.rows[j][d]]]]

\* lines 101-116
SummaryKec(rc) ==
    IF IsEmpty(rc) THEN rc
    ELSE WithSUM(AttachKecIds(GroupBySum(rc, "kec", MeasureCols),
                              <<"id_prov", "id_kab", "id_kec">>))

\* the messages of lines 97-98 and 112-113
MissingKabIds(rk) ==
    IF IsEmpty(rk) THEN {}
    ELSE {<<"kab", c>> : c \in {"id_prov", "id_kab"} \ rk.cols}

MissingKecIds(rc) ==
    IF IsEmpty(rc) THEN {}
    ELSE {<<"kec", c>> : c \in {"id_prov", "id_kab", "id_kec"}
                              \ GroupBySum(rc, "kec", MeasureCols).cols}

----------------------------------------------------------------------------
(* Inputs: the workbooks glob finds, and the requested district code *)

MaxFiles == 2
MaxRows == 2

Codes == {7205, 7206}

\* a sheet that is not in the workbook (or a workbook that cannot be read)
MissingSheet == [ok |-> FALSE, cols |-> {}, rows |-> <<>>]

Sheet(cols, rows) ==
    [ok |-> TRUE, cols |-> cols,
     rows |-> [j \in 1..Len(rows) |-> [c \in cols |-> rows[j][c]]]]

\* the sequences of at most n elements of S
SeqsUpTo(S, n) == UNION {[1..m -> S] : m \in 0..n}

\* the sequences of at most n distinct elements of S: the rows of a sheet
DistinctSeqsUpTo(S, n) ==
    {q \in SeqsUpTo(S, n) : \A i, j \in DOMAIN q : i # j => q[i] # q[j]}

KabCols == {"kab", "id_komoditas", "ID", "n_rtup", "id_prov", "id_kab"}

KabRow(kab, n, prov, idkab) ==
    [c \in KabCols |->
       CASE c = "kab" -> Int_(kab)
         [] c = "id_komoditas" -> Int_(11)
         [] c = "ID" -> Int_(n + 100)
         [] c = "n_rtup" -> Int_(n)
         [] c = "id_prov" -> prov
         [] c = "id_kab" -> idkab]

\* district-sheet rows: labels as text, labels as numbers, another district
KabRowA == KabRow(7205, 1, Str_("[72] SULAWESI TENGAH"), Str_("[7205] BANGGAI"))
KabRowB == KabRow(7205, 2, Int_(72), Int_(7205))
KabRowC == KabRow(7206, 4, Str_("[72] SULTENG"), Str_("[7206] POSO"))
KabRows == {KabRowA, KabRowB, KabRowC}

\* the columns a district sheet may have: all, or all but the labels
KabSchemas == {KabCols, KabCols \ {"id_prov", "id_kab"}}

KabSheets ==
    {Sheet(sc, rows) : sc \in KabSchemas, rows \in DistinctSeqsUpTo(KabRows, MaxRows)}

KecCols == {"kab", "kec", "id_prov", "id_kab", "id_kec"} \cup MeasureCols

KecRow(kab, kec, v) ==
    [c \in KecCols |->
       CASE c = "kab" -> Int_(kab)
         [] c = "kec" -> Int_(kec)
         [] c = "id_prov" -> Str_("[72] SULAWESI TENGAH")
         [] c = "id_kab" -> Int_(kab)
         [] c = "id_kec" -> Int_(kec)
         [] OTHER -> Int_(v[CHOOSE i \in 1..Len(columns_to_sum) : columns_to_sum[i] = c])]

\* sub-district-sheet rows: two of one sub-district, one of a second, and one
\* of another district
KecRowP == KecRow(7205, 10, <<10, 0, 1, 0, 2, 3>>)
KecRowQ == KecRow(7205, 10, <<5, 1, 0, 0, 0, 7>>)
KecRowR == KecRow(7205, 20, <<3, 2, 0, 4, 0, 1>>)
KecRowS == KecRow(7206, 10, <<1, 1, 1, 1, 1, 1>>)
KecRows == {KecRowP, KecRowQ, KecRowR, KecRowS}

KecNoIds == KecCols \ {"id_prov", "id_kab", "id_kec"}

KecSheets ==
    {Sheet(KecCols, rows) : rows \in DistinctSeqsUpTo(KecRows, MaxRows)}
    \cup {Sheet(KecNoIds, <<KecRowP>>), Sheet(KecNoIds, <<KecRowS, KecRowR>>)}

\* sheets on which a step of the loop raises: no kab column (the filter), no
\* kec column or a measure column short (the group-by)
BadKabSheets == {Sheet(KabCols \ {"kab"}, <<KabRowA>>), MissingSheet}

BadKecSheets ==
    {Sheet(KecCols \ {"kab"}, <<KecRowP>>), Sheet(KecCols \ {"kec"}, <<KecRowP>>),
     Sheet(KecCols \ {"n_rtup"}, <<KecRowP>>), MissingSheet}

\* workbooks for the district summary: every district sheet, beside a good
\* sub-district sheet; and workbooks on which a step raises
KabFiles ==
    {[kab |-> s, kec |-> Sheet(KecCols, <<KecRowP>>)] : s \in KabSheets}
    \cup {[kab |-> s, kec |-> Sheet(KecCols, <<KecRowP>>)] : s \in BadKabSheets}
    \cup {[kab |-> Sheet(KabCols, <<r>>), kec |-> MissingSheet] : r \in KabRows}

\* workbooks for the sub-district summary
KecFiles ==
    {[kab |-> Sheet(KabCols, <<KabRowA>>), kec |-> s] : s \in KecSheets}
    \cup {[kab |-> Sheet(KabCols, <<KabRowA>>), kec |-> s] : s \in BadKecSheets}
    \cup {[kab |-> MissingSheet, kec |-> Sheet(KecCols, <<KecRowP>>)]}

\* workbooks for the failures: good and bad sheets in every combination
MixedFiles ==
    {[kab |-> s, kec |-> k] :
       s \in {Sheet(KabCols, <<KabRowA>>), Sheet(KabCols \ {"id_prov", "id_kab"}, <<KabRowB>>),
              Sheet(KabCols, <<KabRowC>>)} \cup BadKabSheets,
       k \in {Sheet(KecCols, <<KecRowP>>), Sheet(KecCols, <<KecRowS>>)} \cup BadKecSheets}

\* the files in the order glob returns them, named by position
NamedFiles(fs) ==
    [j \in 1..Len(fs) |->
       [name |-> "4_54_" \o NatToStr(j) \o ".xlsx", kab |-> fs[j].kab, kec |-> fs[j].kec]]

----------------------------------------------------------------------------
(* The run *)

\* a run on at most MaxFiles of the workbooks Files, for a code of codes
InitWith(Files, codes) ==
    /\ files \in {NamedFiles(fs) : fs \in SeqsUpTo(Files, MaxFiles)}
    /\ kab_code \in codes
    /\ pc = "glob"
    /\ idx = 0
    /\ result_kab = NoneFrame
    /\ result_kec = NoneFrame
    /\ summary_kab = NoneFrame
    /\ skipped = {}
    /\ log = {}
    /\ sheets_written = {}

\* lines 47-49: no file matches the prefix
NoFiles ==
    /\ pc = "glob"
    /\ files = <<>>
    /\ pc' = "returned"
    /\ log' = log \cup {<<"no_files", "">>}
    /\ UNCHANGED <<files, kab_code, idx, result_kab, result_kec, summary_kab,
                   skipped, sheets_written>>

\* lines 51-52
StartLoop ==
    /\ pc = "glob"
    /\ files # <<>>
    /\ pc' = "loop"
    /\ idx' = 1
    /\ result_kab' = EmptyFrame
    /\ result_kec' = EmptyFrame
    /\ UNCHANGED <<files, kab_code, summary_kab, skipped, log, sheets_written>>

\* lines 59-75: an iteration in which nothing raises
FileDone ==
    /\ pc = "loop"
    /\ idx <= Len(files)
    /\ LET r == ProcessFile(result_kab, result_kec, files[idx], kab_code)
       IN /\ r.err = "none"
          /\ result_kab' = r.kab
          /\ result_kec' = r.kec
    /\ idx' = idx + 1
    /\ UNCHANGED <<files, kab_code, pc, summary_kab, skipped, log, sheets_written>>

\* lines 59-77: an iteration in which a step raises and the handler logs it
FileError ==
    /\ pc = "loop"
    /\ idx <= Len(files)
    /\ LET r == ProcessFile(result_kab, result_kec, files[idx], kab_code)
       IN /\ r.err # "none"
          /\ result_kab' = r.kab
          /\ result_kec' = r.kec
          /\ log' = log \cup {<<r.err, files[idx].name>>}
    /\ skipped' = skipped \cup {idx}
    /\ idx' = idx + 1
    /\ UNCHANGED <<files, kab_code, pc, summary_kab, sheets_written>>

\* lines 79-118: the two summaries, and the return
Summarize ==
    /\ pc = "loop"
    /\ idx > Len(files)
    /\ summary_kab' = SummaryKab(result_kab)
    /\ result_kec' = SummaryKec(result_kec)
    /\ log' = log \cup MissingKabIds(result_kab) \cup MissingKecIds(result_kec)
                  \cup (IF IsEmpty(result_kab) THEN {<<"no_data", "kab">>} ELSE {})
                  \cup (IF IsEmpty(result_kec) THEN {<<"no_data", "kec">>} ELSE {})
    /\ pc' = "returned"
    /\ UNCHANGED <<files, kab_code, idx, result_kab, skipped, sheets_written>>

\* lines 149-156 when result_kec is a frame: the sheets that are written
\* (the name of the output file, and what the writer does with a workbook
\* that was given no sheet, are the writer's matter and not modelled)
MainWrite ==
    /\ pc = "returned"
    /\ ~result_kec.none
    /\ sheets_written' = (IF ~summary_kab.none THEN {"Kabupaten"} ELSE {})
                         \cup (IF ~IsEmpty(result_kec) THEN {"Kecamatan"} ELSE {})
    /\ pc' = "written"
    /\ UNCHANGED <<files, kab_code, idx, result_kab, result_kec, summary_kab,
                   skipped, log>>

\* lines 149-154 when result_kec is None: None has no attribute empty
MainRaise ==
    /\ pc = "returned"
    /\ result_kec.none
    /\ sheets_written' = (IF ~summary_kab.none THEN {"Kabupaten"} ELSE {})
    /\ pc' = "raised"
    /\ UNCHANGED <<files, kab_code, idx, result_kab, result_kec, summary_kab,
                   skipped, log>>

Next == NoFiles \/ StartLoop \/ FileDone \/ FileError \/ Summarize
        \/ MainWrite \/ MainRaise

Init == InitWith(MixedFiles, Codes)
InitKab == InitWith(KabFiles, Codes)
\* the sub-district rows are of district 7205 but one: that is the code asked for
InitKec == InitWith(KecFiles, {7205})

Spec == Init /\ [][Next]_vars
SpecKab == InitKab /\ [][Next]_vars
SpecKec == InitKec /\ [][Next]_vars

----------------------------------------------------------------------------
(* What the claims speak of, read off the input files *)

\* the steps of the loop raise nothing on the district sheet of f
KabReadable(f) == f.kab.ok /\ "kab" \in f.kab.cols

\* the steps of the loop raise nothing on the sub-district sheet of f
KecReadable(f) ==
    f.kec.ok /\ ({"kab", "kec"} \cup MeasureCols) \subseteq f.kec.cols

LoadsWithoutError(f) == KabReadable(f) /\ KecReadable(f)

Returned == pc = "returned"

\* row j of sheet sh is of the requested district
Matches(sh, j) == "kab" \in sh.cols /\ sh.rows[j]["kab"] = Int_(kab_code)

HasMatch(sh) == \E j \in 1..Len(sh.rows) : Matches(sh, j)

\* the sum of column c over the matching rows of sheet sh
SheetTotal(sh, c) ==
    SumSeq([j \in 1..Len(sh.rows) |->
              IF Matches(sh, j) /\ c \in sh.cols THEN NumOrZero(sh.rows[j][c]) ELSE 0])

\* the sum of column c over the matching district-sheet rows of every file
KabTotal(c) == SumSeq([i \in 1..Len(files) |-> SheetTotal(files[i].kab, c)])

\* column c of the district sheets is numeric: some sheet with a matching
\* row has it, and each such sheet holds only numbers in it
NumericKabColumn(c) ==
    /\ \E i \in 1..Len(files) : HasMatch(files[i].kab) /\ c \in files[i].kab.cols
    /\ \A i \in 1..Len(files) :
         (HasMatch(files[i].kab) /\ c \in files[i].kab.cols)
           => \A j \in 1..Len(files[i].kab.rows) : files[i].kab.rows[j][c].k = "int"

\* the columns the attached copies of id_prov and id_kab take the place of
ReplacedByCopy ==
    {Renamed(col) : col \in {c \in {"id_prov", "id_kab"} :
                               \E i \in 1..Len(files) : c \in files[i].kab.cols}}

AllLoad == \A i \in 1..Len(files) : LoadsWithoutError(files[i])

SomeKabMatch == \E i \in 1..Len(files) : HasMatch(files[i].kab)

\* the district summary holds the sum of each column of cs
SumsOf(cs) ==
    \A c \in cs : NumericKabColumn(c) =>
        /\ c \in summary_kab.cols
        /\ summary_kab.rows[1][c] = Int_(KabTotal(c))

\* C1 as stated: when every file loads and a district row matches, the
\* district summary is one row holding, for every numeric column but
\* id_komoditas and ID, the sum over the matching rows of all files; and
\* id_komoditas and ID are not among its columns.
C1_AsStated ==
    (Returned /\ AllLoad /\ SomeKabMatch) =>
        /\ ~summary_kab.none
        /\ Len(summary_kab.rows) = 1
        /\ SumsOf(KabCols \ {"id_komoditas", "ID"})
        /\ summary_kab.cols \cap {"id_komoditas", "ID"} = {}

\* C1 amended: the same, for every numeric column but id_komoditas, ID and a
\* column named prov or kab whose place the attached copy of id_prov or
\* id_kab takes.
C1_DistrictSums ==
    (Returned /\ AllLoad /\ SomeKabMatch) =>
        /\ ~summary_kab.none
        /\ Len(summary_kab.rows) = 1
        /\ SumsOf(KabCols \ ({"id_komoditas", "ID"} \cup ReplacedByCopy))
        /\ summary_kab.cols \cap {"id_komoditas", "ID"} = {}

\* two files with matching rows, summed into one row
C1_Witness ==
    /\ Returned /\ AllLoad /\ Len(files) = 2
    /\ HasMatch(files[1].kab) /\ HasMatch(files[2].kab)
    /\ Len(files[1].kab.rows) = 2
    /\ ~summary_kab.none
    /\ summary_kab.rows[1]["n_rtup"].n >= 3
    /\ ReplacedByCopy = {}
    /\ summary_kab.rows[1]["kab"].n = 3 * kab_code

\* what a district-sheet row holds in column col, if anything
InputValues(col) ==
    {files[i].kab.rows[j][col] :
       <<i, j>> \in {p \in (1..Len(files)) \X (1..MaxRows) :
                      /\ files[p[1]].kab.ok
                      /\ p[2] <= Len(files[p[1]].kab.rows)
                      /\ col \in files[p[1]].kab.cols}}

\* C4: in a district summary no identifier column is summed: the identifier
\* columns of the input are not among the summed columns, and prov and kab,
\* where the summary has them, are copies of an input row's id_prov and id_kab.
C4_NoIdentifierSummed ==
    (Returned /\ ~summary_kab.none) =>
        /\ summary_kab.cols \cap {"id_prov", "id_kab", "id_kec", "id_komoditas", "kec"} = {}
        /\ "prov" \in summary_kab.cols => summary_kab.rows[1]["prov"] \in InputValues("id_prov")
        /\ "kab" \in summary_kab.cols => summary_kab.rows[1]["kab"] \in InputValues("id_kab")

\* the file and the row of the first accumulated matching district-sheet row
FirstFile ==
    CHOOSE i \in 1..Len(files) :
        /\ KabReadable(files[i]) /\ HasMatch(files[i].kab)
        /\ \A h \in 1..(i - 1) : ~(KabReadable(files[h]) /\ HasMatch(files[h].kab))

FirstRow ==
    LET sh == files[FirstFile].kab
        j == CHOOSE j \in 1..Len(sh.rows) :
                Matches(sh, j) /\ \A h \in 1..(j - 1) : ~Matches(sh, h)
    IN sh.rows[j]

\* the input carries column col: a district sheet that was accumulated has it
Carries(col) ==
    \E i \in 1..Len(files) : KabReadable(files[i]) /\ col \in files[i].kab.cols

\* C9: where the district summary is present and the input carries id_prov
\* and id_kab, prov and kab are the values of the first accumulated matching
\* row, in the order of the files and of the rows of each district sheet
\* (NaN where that row has no such column).
C9_FirstRowIds ==
    (Returned /\ ~summary_kab.none /\ Carries("id_prov") /\ Carries("id_kab")) =>
        /\ {"prov", "kab"} \subseteq summary_kab.cols
        /\ summary_kab.rows[1]["prov"] = Widen(FirstRow, KabCols \cup {"id_prov"})["id_prov"]
        /\ summary_kab.rows[1]["kab"] = Widen(FirstRow, KabCols \cup {"id_kab"})["id_kab"]

\* two files whose first matching rows carry different labels
C9_Witness ==
    /\ Returned /\ ~summary_kab.none /\ Len(files) = 2
    /\ files[1].kab = Sheet(KabCols, <<KabRowC, KabRowA>>)
    /\ files[2].kab = Sheet(KabCols, <<KabRowB>>)
    /\ kab_code = 7205
    /\ summary_kab.rows[1]["kab"] = Str_("[7205] BANGGAI")

\* the files whose sub-district rows are counted: all, or those no step raised on
AllFiles == {i \in 1..Len(files) : files[i].kec.ok}
LoadedFiles == {i \in 1..Len(files) : LoadsWithoutError(files[i])}

\* the distinct kec of the matching sub-district-sheet rows of the files in F
KecOf(F) ==
    {files[i].kec.rows[j]["kec"] :
       <<i, j>> \in {p \in F \X (1..MaxRows) :
                      /\ p[2] <= Len(files[p[1]].kec.rows)
                      /\ "kec" \in files[p[1]].kec.cols
                      /\ Matches(files[p[1]].kec, p[2])}}

\* the one-stage sum of column c over the matching rows with kec g of the files in F
KecTotal(F, g, c) ==
    SumSeq([i \in 1..Len(files) |->
              IF i \in F
              THEN LET sh == files[i].kec
                   IN SumSeq([j \in 1..Len(sh.rows) |->
                                IF Matches(sh, j) /\ "kec" \in sh.cols /\ c \in sh.cols
                                   /\ sh.rows[j]["kec"] = g
                                THEN NumOrZero(sh.rows[j][c]) ELSE 0])
              ELSE 0])

\* the sub-district summary is the one-stage aggregate of the files in F
OneStage(F) ==
    /\ ~result_kec.none
    /\ Len(result_kec.rows) = Cardinality(KecOf(F))
    /\ \A g \in KecOf(F) :
         \E j \in 1..Len(result_kec.rows) :
            /\ result_kec.rows[j]["kec"] = g
            /\ \A c \in MeasureCols : result_kec.rows[j][c] = Int_(KecTotal(F, g, c))

\* C2 as stated: the sub-district summary has one row per distinct kec of the
\* matching sub-district rows, each measure the one-stage sum over the rows
\* of every file.
C2_AsStated == (Returned /\ files # <<>>) => OneStage(AllFiles)

\* C2 amended: the same, over the rows of every file that was processed
\* without error.
C2_TwoStageIsOneStage == (Returned /\ files # <<>>) => OneStage(LoadedFiles)

\* the rows of one sub-district split inside a file and across two files
C2_Witness ==
    /\ Returned /\ Len(files) = 2 /\ kab_code = 7205
    /\ files[1].kec = Sheet(KecCols, <<KecRowP, KecRowQ>>)
    /\ files[2].kec = Sheet(KecCols, <<KecRowR, KecRowP>>)
    /\ Len(result_kec.rows) = 2
    /\ result_kec.rows[1]["n_rtup"] = Int_(13)
    /\ result_kec.rows[1]["n_rtup_tunggal"] = Int_(25)

\* C7: in every row of a non-empty sub-district summary SUM is the sum of the
\* row's six measure columns.
C7_SumColumn ==
    (Returned /\ ~result_kec.none) =>
        \A j \in 1..Len(result_kec.rows) :
           /\ "SUM" \in result_kec.cols
           /\ result_kec.rows[j]["SUM"].k = "int"
           /\ result_kec.rows[j]["SUM"].n =
                result_kec.rows[j]["n_rtup_tunggal"].n
                + result_kec.rows[j]["n_rtup_campuran"].n
                + result_kec.rows[j]["n_rtup_tumpang_sari"].n
                + result_kec.rows[j]["n_rtup_asosiasi_antar_semusim"].n
                + result_kec.rows[j]["n_rtup_jumlah"].n
                + result_kec.rows[j]["n_rtup"].n

C7_Witness ==
    /\ Returned /\ ~result_kec.none /\ Len(result_kec.rows) = 2
    /\ result_kec.rows[1]["SUM"] = Int_(32)
    /\ result_kec.rows[2]["SUM"] = Int_(10)

\* the identifier columns the matching sub-district rows that were summed have
KecIdsPresent ==
    {c \in {"id_prov", "id_kab", "id_kec"} :
       \E i \in LoadedFiles : HasMatch(files[i].kec) /\ c \in files[i].kec.cols}

\* C8: a non-empty sub-district summary has, for each of id_prov, id_kab and
\* id_kec the input rows have, the renamed column, holding text; a column is
\* left out, and that logged, only when the input has none.
C8_IdsAttached ==
    (Returned /\ ~result_kec.none /\ ~IsEmpty(result_kec)) =>
        \A c \in KecIdsPresent :
           /\ Renamed(c) \in result_kec.cols
           /\ \A j \in 1..Len(result_kec.rows) : result_kec.rows[j][Renamed(c)].k = "str"
           /\ <<"kec", c>> \notin log

\* the files of fs at the positions in F, in their order
RECURSIVE Keep(_, _, _)
Keep(fs, F, i) ==
    IF i > Len(fs) THEN <<>>
    ELSE (IF i \in F THEN <<fs[i]>> ELSE <<>>) \o Keep(fs, F, i + 1)

\* what process_files returns for the files fs, and the district rows it
\* accumulated
ReturnedFor(fs) ==
    LET r == RunLoop(EmptyFrame, EmptyFrame, fs, kab_code)
    IN [kab |-> SummaryKab(r.kab), kec |-> SummaryKec(r.kec), rows |-> r.kab]

\* C3: when a step raises on a file, whichever step it is, both summaries are
\* those of the remaining files alone.
C3_FailedFileSkipped ==
    (Returned /\ skipped # {} /\ skipped # 1..Len(files)) =>
        LET rest == ReturnedFor(Keep(files, (1..Len(files)) \ skipped, 1))
        IN summary_kab = rest.kab /\ result_kec = rest.kec

\* C5: with no candidate file process_files returns (None, None) at once,
\* and the main script's writing step ends without an exception.
C5_NoFilesNoException ==
    files = <<>> =>
        /\ pc \in {"glob", "returned", "written"}
        /\ pc # "glob" => (summary_kab.none /\ result_kec.none /\ idx = 0)

\* no sheet of any file has a row of the requested district
NoMatch ==
    \A i \in 1..Len(files) : ~HasMatch(files[i].kab) /\ ~HasMatch(files[i].kec)

\* C6: with at least one candidate file and no row of the requested district
\* in any file, process_files returns no district summary and an empty
\* sub-district table; the loop has gone through every file, what was raised
\* was handled in it.
C6_NoMatchEmpty ==
    (files # <<>> /\ NoMatch /\ pc \notin {"glob", "loop"}) =>
        /\ summary_kab.none /\ ~result_kec.none /\ IsEmpty(result_kec)
        /\ idx = Len(files) + 1
        /\ skipped = {i \in 1..Len(files) : ~LoadsWithoutError(files[i])}

\* two files that load, with rows of another district only
C6_Witness ==
    /\ Returned /\ Len(files) = 2 /\ NoMatch /\ skipped = {}
    /\ Len(files[1].kab.rows) > 0 /\ Len(files[2].kec.rows) > 0
    /\ summary_kab.none /\ IsEmpty(result_kec) /\ result_kec.cols # {}

Perms(n) == {q \in [1..n -> 1..n] : \A i, j \in 1..n : i # j => q[i] # q[j]}

\* the sums of a district summary sm of the accumulated rows rk: its columns
\* but those that hold the copy of id_prov or id_kab
SummedPart(sm, rk) ==
    IF sm.none THEN <<>>
    ELSE <<[c \in sm.cols \ {Renamed(col) : col \in {"id_prov", "id_kab"} \cap rk.cols}
              |-> sm.rows[1][c]]>>

====
